---- MODULE Spec2Model ----
(***************************************************************************)
(* Model of the connection manager (database.py: SurrealDB.get_client,    *)
(* populate_sample_data, main; main.py: setup_client) and of the order    *)
(* workflow built on it (tools.py: get_product_info, check_order_status,  *)
(* create_order).                                                         *)
(*                                                                         *)
(* Every coroutine is cut at its await points: one action is the code a   *)
(* task runs between two suspensions, together with the effect of the     *)
(* awaited call on the remote store.  A coroutine that awaits a coroutine *)
(* which returns without suspending continues in the same action.         *)
(***************************************************************************)
EXTENDS Integers, Sequences, FiniteSets, TLC

\* ------------------------------------------------------------------ bounds
NTasks == 2
MaxStock == 2
MaxQty == 2

Tasks == 1..NTasks
Quantities == (-1)..MaxQty

\* ------------------------------------------------------------- environment
\* os.getenv("SURREALDB_URL"): unset (None), or a string (a sequence of
\* characters, so that startswith is computed and not assumed).
Unset == [isSet |-> FALSE, value |-> <<>>]
EnvStr(s) == [isSet |-> TRUE, value |-> s]
Urls ==
    { Unset, EnvStr(<<>>),
      EnvStr(<<"w", "s", ":">>), EnvStr(<<"w", "s", "s", ":">>),
      EnvStr(<<"h", "t", "t", "p", ":">>) }

\* A test for None alone, which lets the empty string through.
IsNone(u) == ~u.isSet

\* Python truthiness of an optional string: `not db_url`.
Falsy(u) == ~u.isSet \/ Len(u.value) = 0

\* A test for equality with the prefix in place of startswith.
EqualsPrefix(s, prefix) == s = prefix

\* str.startswith
StartsWith(s, prefix) ==
    /\ Len(s) >= Len(prefix)
    /\ SubSeq(s, 1, Len(prefix)) = prefix

PrefixWs == <<"w", "s">>

\* ------------------------------------------------------------------ values
None == 0

\* os.getenv("SURREALDB_USERNAME", "root"), os.getenv("SURREALDB_PASSWORD",
\* "root"), with the variables unset.
Username == "root"
Password == "root"
NoCredentials == [username |-> "", password |-> ""]
\* sign_in(username=username, password=password)
KeywordCredentials == [username |-> Username, password |-> Password]
\* signin({"username": username, "password": password})
MappingCredentials == [username |-> Username, password |-> Password]

\* AsyncSurreal(db_url): a fresh client object.  The record counts the calls
\* made on it and keeps how its sign-in calls ended, which task constructed
\* it, and whether it has been stored in SurrealDB._instance.
NewClient(t) ==
    [owner |-> t, connect |-> 0, use |-> 0, sign_in |-> 0, signin |-> 0,
     sign_in_out |-> "", signin_out |-> "",
     sign_in_args |-> NoCredentials, signin_args |-> NoCredentials,
     cached |-> FALSE,
     store |-> 0, close |-> 0]

RecordId(tb, n) == [tb |-> tb, id |-> n]
NoId == RecordId("", 0)

NoProduct ==
    [id |-> NoId, name |-> "", price |-> 0, description |-> "",
     category |-> "", stock |-> 0]
NoOrder == [id |-> NoId, product_id |-> NoId, quantity |-> 0, status |-> ""]

ShirtName == "Classic T-Shirt"
MugName == "Mug"
ShirtPrice == 1999

\* populate_sample_data's product_data (stock is the seed's 100 there; the
\* store may hold any non-negative stock).
ProductData(stock) ==
    [name |-> ShirtName, price |-> ShirtPrice,
     description |-> "A comfortable and stylish t-shirt.",
     category |-> "Apparel", stock |-> stock]

SeedStock == 100

\* The identifier the store gives to the next record of a table: one it does
\* not hold yet.
RECURSIVE MaxId(_)
MaxId(rs) ==
    IF rs = <<>> THEN 0
    ELSE LET m == MaxId(Tail(rs)) IN
         IF Head(rs).id.id > m THEN Head(rs).id.id ELSE m
FreshId(rs) == MaxId(rs) + 1

\* db.create(table, data): the store assigns the identifier.
Created(table, n, data) ==
    [f \in {"id"} \cup DOMAIN data |-> IF f = "id" THEN RecordId(table, n) ELSE data[f]]

Mug ==
    [id |-> RecordId("products", 2), name |-> MugName, price |-> 500,
     description |-> "A mug.", category |-> "Kitchen", stock |-> 1]

\* Results handed to the caller.
NoResult == [kind |-> "none", error |-> "", order |-> NoOrder, handle |-> None]
ErrorResult(msg) == [NoResult EXCEPT !.kind = "error", !.error = msg]
OrderResult(o) == [NoResult EXCEPT !.kind = "order", !.order = o]
HandleResult(h) == [NoResult EXCEPT !.kind = "handle", !.handle = h]
Exception(e) == [NoResult EXCEPT !.kind = "raised", !.error = e]
Returned == [NoResult EXCEPT !.kind = "returned"]

ProductNotFound == ErrorResult("Product not found.")
OutOfStock == ErrorResult("Product out of stock.")

IdleTask ==
    [op |-> "none", pc |-> "idle", site |-> "",
     product_name |-> "", quantity |-> 0, order_id |-> 0,
     client |-> None, db |-> None,
     product |-> NoProduct, new_stock |-> 0,
     seen |-> 0, caught |-> "",
     at_call_stock |-> 0, at_call_orders |-> 0, trace |-> <<>>,
     ret |-> NoResult]

VARIABLES
    db_url,     \* os.getenv("SURREALDB_URL")
    has_sign_in,\* the installed SDK's client has a sign_in attribute
    update_mode,\* what the store does with update(id, data): "content" | "merge"
    instance,   \* SurrealDB._instance: None or the index of a client
    clients,    \* every AsyncSurreal object constructed so far
    products,   \* the store's products table
    orders,     \* the store's orders table
    task        \* the coroutines: locals and position

vars == <<db_url, has_sign_in, update_mode, instance, clients, products, orders, task>>


\* ------------------------------------------------------- call and return
\* The caller's code that follows `await SurrealDB.get_client()` (or
\* setup_client) once it has returned handle h, up to the caller's next
\* suspension.
Resume(tk, h) ==
    LET back == [tk EXCEPT !.client = None] IN
    CASE tk.op \in {"get_client", "setup_client"} ->
            [back EXCEPT !.pc = "done", !.ret = HandleResult(h)]
      [] tk.op = "main.py" ->
            [back EXCEPT !.db = h, !.pc = "add_content"]
      [] tk.op = "create_order" ->
            [back EXCEPT !.db = h, !.pc = "query"]
      [] tk.op = "get_product_info" ->
            [back EXCEPT !.db = h, !.pc = "info_query"]
      [] tk.op = "check_order_status" ->
            [back EXCEPT !.db = h, !.pc = "select"]
      [] tk.op = "main" /\ tk.site = "populate" ->
            [back EXCEPT !.db = h, !.pc = "seed_create"]
      [] tk.op = "main" /\ tk.site = "finally" ->
            [back EXCEPT !.db = h, !.pc = "close"]

RECURSIVE Propagate(_, _, _, _, _)
RECURSIVE GetClientEntry(_, _, _, _)

\* get_client, lines 26-37, and setup_client, lines 16-38: read the
\* configuration, refuse a missing endpoint, construct the client and start
\* the first awaited call.
InitClient(t, tk, inst, cs) ==
    IF Falsy(db_url)
    THEN Propagate(t, tk, "ValueError", inst, cs)
    ELSE [task |-> [tk EXCEPT !.client = Len(cs) + 1,
                              !.pc = IF StartsWith(db_url.value, PrefixWs)
                                     THEN "connect" ELSE "use"],
          clients |-> Append(cs, NewClient(t))]

\* get_client without the test of line 25: every call initialises.
GetClientEntryWithoutCache(t, tk, inst, cs) == InitClient(t, tk, inst, cs)

\* get_client up to its first suspension (or its return, when the handle is
\* cached).
GetClientEntry(t, tk, inst, cs) ==
    IF inst = None
    THEN InitClient(t, tk, inst, cs)
    ELSE [task |-> Resume(tk, inst), clients |-> cs]

\* Propagate with no finally block in database.main: the exception caught
\* around populate_sample_data ends the run.
PropagateWithoutFinally(t, tk, e, inst, cs) ==
    [task |-> [tk EXCEPT !.pc = "done", !.caught = e, !.ret = Returned,
                         !.client = None],
     clients |-> cs]

\* An exception e leaves the coroutine the task is in.  tools.py and
\* get_client catch nothing; database.main catches Exception around
\* populate_sample_data and then runs its finally block, which calls
\* get_client again.
Propagate(t, tk, e, inst, cs) ==
    IF tk.op = "main" /\ tk.site = "populate"
    THEN GetClientEntry(t, [tk EXCEPT !.site = "finally", !.caught = e,
                                      !.client = None, !.db = None],
                        inst, cs)
    ELSE [task |-> [tk EXCEPT !.pc = "done", !.ret = Exception(e),
                              !.client = None],
          clients |-> cs]

Becomes(t, r) ==
    /\ task' = [task EXCEPT ![t] = r.task]
    /\ clients' = r.clients

Counted(cs, h, f) == [cs EXCEPT ![h][f] = @ + 1]
Noted(cs, h, f, v) == [cs EXCEPT ![h][f] = v]

\* ------------------------------------------------------------ operations
CallGetClient(t) ==
    /\ task[t].pc = "idle"
    /\ Becomes(t, GetClientEntry(t, [task[t] EXCEPT !.op = "get_client"],
                                 instance, clients))
    /\ UNCHANGED <<db_url, has_sign_in, update_mode, instance, products, orders>>

CallSetupClient(t) ==
    /\ task[t].pc = "idle"
    /\ Becomes(t, InitClient(t, [task[t] EXCEPT !.op = "setup_client"],
                             instance, clients))
    /\ UNCHANGED <<db_url, has_sign_in, update_mode, instance, products, orders>>

\* await client.connect()
Connect(t) ==
    /\ task[t].pc = "connect"
    /\ \E ok \in BOOLEAN :
        LET cs == Counted(clients, task[t].client, "connect") IN
        IF ok
        THEN Becomes(t, [task |-> [task[t] EXCEPT !.pc = "use"], clients |-> cs])
        ELSE Becomes(t, Propagate(t, task[t], "ConnectionError", instance, cs))
    /\ UNCHANGED <<db_url, has_sign_in, update_mode, instance, products, orders>>

\* await client.use(namespace, database); then the try block evaluates
\* client.sign_in: on a client without that attribute AttributeError is
\* raised before any call is made, and the except clause starts signin.
Use(t) ==
    /\ task[t].pc = "use"
    /\ \E ok \in BOOLEAN :
        LET cs == Counted(clients, task[t].client, "use") IN
        IF ok
        THEN Becomes(t, [task |-> [task[t] EXCEPT
                                      !.pc = IF has_sign_in THEN "sign_in" ELSE "signin"],
                         clients |-> cs])
        ELSE Becomes(t, Propagate(t, task[t], "UseError", instance, cs))
    /\ UNCHANGED <<db_url, has_sign_in, update_mode, instance, products, orders>>

\* The initialisation the task is in is main.py's setup_client (called on its
\* own or from main.py's main), which has no cache.
InSetupClient(tk) == tk.op \in {"setup_client", "main.py"}

\* cls._instance = client; return cls._instance   (setup_client: return client)
Authenticated(t, cs) ==
    LET c == task[t].client
        inst == IF InSetupClient(task[t]) THEN instance ELSE c
        h == IF InSetupClient(task[t]) THEN c ELSE inst
    IN  /\ instance' = inst
        /\ Becomes(t, [task |-> Resume(task[t], h),
                       clients |-> IF InSetupClient(task[t])
                                   THEN cs ELSE Noted(cs, c, "cached", TRUE)])

\* SignIn with `except Exception` in place of `except AttributeError`.
SignInCatchesAll(t) ==
    /\ task[t].pc = "sign_in"
    /\ \E out \in {"ok", "AttributeError", "AuthError"} :
        LET cs == Noted(Noted(Counted(clients, task[t].client, "sign_in"),
                              task[t].client, "sign_in_out", out),
                        task[t].client, "sign_in_args", KeywordCredentials) IN
        CASE out = "ok" -> Authenticated(t, cs)
          [] OTHER ->
                /\ Becomes(t, [task |-> [task[t] EXCEPT !.pc = "signin"],
                               clients |-> cs])
                /\ UNCHANGED instance
    /\ UNCHANGED <<db_url, has_sign_in, update_mode, products, orders>>

\* try: await client.sign_in(username=..., password=...)
SignIn(t) ==
    /\ task[t].pc = "sign_in"
    /\ \E out \in {"ok", "AttributeError", "AuthError"} :
        LET cs == Noted(Noted(Counted(clients, task[t].client, "sign_in"),
                              task[t].client, "sign_in_out", out),
                        task[t].client, "sign_in_args", KeywordCredentials) IN
        CASE out = "ok" -> Authenticated(t, cs)
          [] out = "AttributeError" ->
                /\ Becomes(t, [task |-> [task[t] EXCEPT !.pc = "signin"],
                               clients |-> cs])
                /\ UNCHANGED instance
          [] OTHER ->
                /\ Becomes(t, Propagate(t, task[t], out, instance, cs))
                /\ UNCHANGED instance
    /\ UNCHANGED <<db_url, has_sign_in, update_mode, products, orders>>

\* except AttributeError: await client.signin({...})
Signin(t) ==
    /\ task[t].pc = "signin"
    /\ \E ok \in BOOLEAN :
        LET cs == Noted(Noted(Counted(clients, task[t].client, "signin"),
                              task[t].client, "signin_out",
                              IF ok THEN "ok" ELSE "AuthError"),
                        task[t].client, "signin_args", MappingCredentials) IN
        IF ok
        THEN Authenticated(t, cs)
        ELSE /\ Becomes(t, Propagate(t, task[t], "AuthError", instance, cs))
             /\ UNCHANGED instance
    /\ UNCHANGED <<db_url, has_sign_in, update_mode, products, orders>>


\* ------------------------------------------------------------- the store
HasName(p, name) == "name" \in DOMAIN p /\ p.name = name

\* SELECT * FROM products WHERE name = $name, in the shape the code reads:
\* a list holding one statement result, whose 'result' is the list of rows.
QueryByName(ps, name) ==
    LET Test(p) == HasName(p, name) IN
    << [result |-> SelectSeq(ps, Test)] >>

\* update(id, data): the record under id gets the fields of data; the store
\* either replaces the record's content by data or merges data into it.
Content(p, data) ==
    [f \in {"id"} \cup DOMAIN data |-> IF f = "id" THEN p.id ELSE data[f]]
Merged(p, data) ==
    [f \in DOMAIN p \cup DOMAIN data |-> IF f \in DOMAIN data THEN data[f] ELSE p[f]]

Updated(ps, id, data, mode) ==
    [i \in 1..Len(ps) |->
        IF ps[i].id = id
        THEN IF mode = "content" THEN Content(ps[i], data) ELSE Merged(ps[i], data)
        ELSE ps[i]]

\* The stock a lookup by name would read now (-1: no such product).
StockByName(ps, name) ==
    LET rows == QueryByName(ps, name)[1].result IN
    IF Len(rows) = 0 THEN -1 ELSE rows[1].stock

StockOf(ps, id) ==
    LET Test(p) == p.id = id IN SelectSeq(ps, Test)[1].stock

\* ------------------------------------------------------------ create_order
CallCreateOrder(t, name, q) ==
    /\ task[t].pc = "idle"
    /\ Becomes(t, GetClientEntry(t,
            [task[t] EXCEPT !.op = "create_order",
                            !.product_name = name,
                            !.quantity = q,
                            !.at_call_stock = StockByName(products, name),
                            !.at_call_orders = Len(orders)],
            instance, clients))
    /\ UNCHANGED <<db_url, has_sign_in, update_mode, instance, products, orders>>

\* Checked without the stock comparison of tools.py 55.
CheckedWithoutStockCheck(tk, product_result) ==
    IF ~(Len(product_result) > 0 /\ Len(product_result[1].result) > 0)
    THEN [tk EXCEPT !.pc = "done", !.ret = ProductNotFound]
    ELSE LET product == product_result[1].result[1] IN
         [tk EXCEPT !.pc = "update", !.product = product,
                    !.new_stock = product.stock - tk.quantity]

\* Checked going on to the order record without awaiting the update of
\* tools.py 60.
CheckedWithoutUpdate(tk, product_result) ==
    IF ~(Len(product_result) > 0 /\ Len(product_result[1].result) > 0)
    THEN [tk EXCEPT !.pc = "done", !.ret = ProductNotFound]
    ELSE LET product == product_result[1].result[1] IN
         IF product.stock < tk.quantity
         THEN [tk EXCEPT !.pc = "done", !.ret = OutOfStock, !.product = product]
         ELSE [tk EXCEPT !.pc = "create", !.product = product,
                         !.new_stock = product.stock - tk.quantity]

\* Checked with `<=` for the `<` of tools.py 55.
CheckedStrictly(tk, product_result) ==
    IF ~(Len(product_result) > 0 /\ Len(product_result[1].result) > 0)
    THEN [tk EXCEPT !.pc = "done", !.ret = ProductNotFound]
    ELSE LET product == product_result[1].result[1] IN
         IF product.stock <= tk.quantity
         THEN [tk EXCEPT !.pc = "done", !.ret = OutOfStock, !.product = product]
         ELSE [tk EXCEPT !.pc = "update", !.product = product,
                         !.new_stock = product.stock - tk.quantity]

\* tools.py 50-60: what create_order does with the query's result, up to
\* the update it awaits next.
Checked(tk, product_result) ==
    IF ~(Len(product_result) > 0 /\ Len(product_result[1].result) > 0)
    THEN [tk EXCEPT !.pc = "done", !.ret = ProductNotFound]
    ELSE LET product == product_result[1].result[1] IN
         IF product.stock < tk.quantity
         THEN [tk EXCEPT !.pc = "done", !.ret = OutOfStock, !.product = product]
         ELSE [tk EXCEPT !.pc = "update", !.product = product,
                         !.new_stock = product.stock - tk.quantity]

\* await db.query("SELECT * FROM products WHERE name = $name", ...)
Query(t) ==
    /\ task[t].pc = "query"
    /\ \E ok \in BOOLEAN :
        LET cs == Counted(clients, task[t].db, "store") IN
        IF ok
        THEN Becomes(t, [task |-> Checked([task[t] EXCEPT !.trace = Append(@, "query")],
                                          QueryByName(products, task[t].product_name)),
                         clients |-> cs])
        ELSE Becomes(t, Propagate(t, task[t], "QueryError", instance, cs))
    /\ UNCHANGED <<db_url, has_sign_in, update_mode, instance, products, orders>>

\* await db.update(product_id, {"stock": new_stock})
Update(t) ==
    /\ task[t].pc = "update"
    /\ \E ok \in BOOLEAN :
        LET cs == Counted(clients, task[t].db, "store") IN
        IF ok
        THEN /\ products' = Updated(products, task[t].product.id,
                                    [stock |-> task[t].new_stock], update_mode)
             /\ Becomes(t, [task |-> [task[t] EXCEPT
                                        !.pc = "create",
                                        !.trace = Append(@, "update"),
                                        !.seen = StockOf(products, task[t].product.id)],
                            clients |-> cs])
        ELSE /\ Becomes(t, Propagate(t, task[t], "UpdateError", instance, cs))
             /\ UNCHANGED products
    /\ UNCHANGED <<db_url, has_sign_in, update_mode, instance, orders>>

\* order_data, tools.py 62-66
OrderData(tk) ==
    [product_id |-> tk.product.id, quantity |-> tk.quantity, status |-> "pending"]

\* Create with a compensation: when the create call fails, the stock the
\* call overwrote is written back before the error goes on.
CreateRestoringStock(t) ==
    /\ task[t].pc = "create"
    /\ \E ok \in BOOLEAN :
        LET cs == Counted(clients, task[t].db, "store") IN
        IF ok
        THEN LET new_order == Created("orders", FreshId(orders), OrderData(task[t])) IN
             /\ orders' = Append(orders, new_order)
             /\ products' = products
             /\ Becomes(t, [task |-> [task[t] EXCEPT !.pc = "done",
                                                     !.trace = Append(@, "create"),
                                                     !.ret = OrderResult(new_order)],
                            clients |-> cs])
        ELSE /\ Becomes(t, Propagate(t, task[t], "CreateError", instance, cs))
             /\ products' = Updated(products, task[t].product.id,
                                    [stock |-> task[t].seen], update_mode)
             /\ UNCHANGED orders
    /\ UNCHANGED <<db_url, has_sign_in, update_mode, instance>>

\* new_order = await db.create("orders", order_data); return new_order
Create(t) ==
    /\ task[t].pc = "create"
    /\ \E ok \in BOOLEAN :
        LET cs == Counted(clients, task[t].db, "store") IN
        IF ok
        THEN LET new_order == Created("orders", FreshId(orders), OrderData(task[t])) IN
             /\ orders' = Append(orders, new_order)
             /\ Becomes(t, [task |-> [task[t] EXCEPT !.pc = "done",
                                                     !.trace = Append(@, "create"),
                                                     !.ret = OrderResult(new_order)],
                            clients |-> cs])
        ELSE /\ Becomes(t, Propagate(t, task[t], "CreateError", instance, cs))
             /\ UNCHANGED orders
    /\ UNCHANGED <<db_url, has_sign_in, update_mode, instance, products>>

\* ------------------------------------------------------------ database.main
\* main -> populate_sample_data -> get_client
CallMain(t) ==
    /\ task[t].pc = "idle"
    /\ Becomes(t, GetClientEntry(t, [task[t] EXCEPT !.op = "main", !.site = "populate"],
                                 instance, clients))
    /\ UNCHANGED <<db_url, has_sign_in, update_mode, instance, products, orders>>

\* await client.create("products", product_data); then main's finally block
\* calls get_client.
SeedCreate(t) ==
    /\ task[t].pc = "seed_create"
    /\ \E ok \in BOOLEAN :
        LET cs == Counted(clients, task[t].db, "store") IN
        IF ok
        THEN /\ products' = Append(products,
                    Created("products", FreshId(products), ProductData(SeedStock)))
             /\ Becomes(t, GetClientEntry(t, [task[t] EXCEPT !.site = "finally", !.db = None],
                                          instance, cs))
        ELSE /\ Becomes(t, Propagate(t, task[t], "CreateError", instance, cs))
             /\ UNCHANGED products
    /\ UNCHANGED <<db_url, has_sign_in, update_mode, instance, orders>>

\* Close that also clears the cache (cls._instance = None after close()).
CloseClearingCache(t) ==
    /\ task[t].pc = "close"
    /\ \E ok \in BOOLEAN :
        LET cs == Counted(clients, task[t].db, "close") IN
        IF ok
        THEN Becomes(t, [task |-> [task[t] EXCEPT !.pc = "done", !.ret = Returned],
                         clients |-> cs])
        ELSE Becomes(t, [task |-> [task[t] EXCEPT !.pc = "done",
                                                  !.ret = Exception("CloseError")],
                         clients |-> cs])
    /\ instance' = None
    /\ UNCHANGED <<db_url, has_sign_in, update_mode, products, orders>>

\* finally: await client.close()
Close(t) ==
    /\ task[t].pc = "close"
    /\ \E ok \in BOOLEAN :
        LET cs == Counted(clients, task[t].db, "close") IN
        IF ok
        THEN Becomes(t, [task |-> [task[t] EXCEPT !.pc = "done", !.ret = Returned],
                         clients |-> cs])
        ELSE Becomes(t, [task |-> [task[t] EXCEPT !.pc = "done",
                                                  !.ret = Exception("CloseError")],
                         clients |-> cs])
    /\ UNCHANGED <<db_url, has_sign_in, update_mode, instance, products, orders>>

\* The shutdown step on its own, main's lines 70-71:
\* client = await SurrealDB.get_client(); await client.close()
CallShutdown(t) ==
    /\ task[t].pc = "idle"
    /\ Becomes(t, GetClientEntry(t, [task[t] EXCEPT !.op = "main", !.site = "finally"],
                                 instance, clients))
    /\ UNCHANGED <<db_url, has_sign_in, update_mode, instance, products, orders>>

\* ---------------------------------------------------------- main.py main
\* client = await setup_client()
CallMainPy(t) ==
    /\ task[t].pc = "idle"
    /\ Becomes(t, InitClient(t, [task[t] EXCEPT !.op = "main.py"],
                             instance, clients))
    /\ UNCHANGED <<db_url, has_sign_in, update_mode, instance, products, orders>>

\* await knowledge_base.add_content_async(url=...), which writes to the
\* "documents" collection through the client; then Agent(...) and
\* agent.print_response(...), which does not suspend and may search the
\* collection; then the call of client.close().  main catches nothing.
AddContent(t) ==
    /\ task[t].pc = "add_content"
    /\ \E added \in BOOLEAN, searched \in BOOLEAN, answered \in BOOLEAN :
        LET cs == Counted(clients, task[t].db, "store") IN
        IF ~added
        THEN Becomes(t, Propagate(t, task[t], "ContentError", instance, cs))
        ELSE LET cs2 == IF searched THEN Counted(cs, task[t].db, "store") ELSE cs IN
             IF answered
             THEN Becomes(t, [task |-> [task[t] EXCEPT !.pc = "close"], clients |-> cs2])
             ELSE Becomes(t, Propagate(t, task[t], "AgentError", instance, cs2))
    /\ UNCHANGED <<db_url, has_sign_in, update_mode, instance, products, orders>>

\* ------------------------------------------------------- specifications
Shirt(s) == Created("products", 1, ProductData(s))

InitProcess ==
    /\ has_sign_in \in BOOLEAN
    /\ update_mode \in {"content", "merge"}
    /\ instance = None
    /\ clients = <<>>
    /\ orders = <<>>
    /\ task = [t \in Tasks |-> IdleTask]

InitStore ==
    \E s \in 0..MaxStock : products = <<Shirt(s), Mug>>

NoCallInProgress == \A t \in Tasks : task[t].pc \in {"idle", "done"}

GetClientStep(t) == Connect(t) \/ Use(t) \/ SignIn(t) \/ Signin(t)
OrderStep(t) == Query(t) \/ Update(t) \/ Create(t)

OrderNames == {ShirtName, "nonexistent"}

\* Concurrent callers of get_client.
InitClients == InitProcess /\ InitStore /\ db_url \in Urls
NextClients ==
    \E t \in Tasks : CallGetClient(t) \/ GetClientStep(t)
SpecClients == InitClients /\ [][NextClients]_vars

\* Callers of get_client, one call at a time.
NextClientsSeq ==
    \E t \in Tasks :
        \/ NoCallInProgress /\ CallGetClient(t)
        \/ GetClientStep(t)
SpecClientsSeq == InitClients /\ [][NextClientsSeq]_vars

\* Concurrent callers of get_client and of main.py's setup_client, on its
\* own or from main.py's main.
NextSetup ==
    \E t \in Tasks :
        \/ CallGetClient(t) \/ CallSetupClient(t) \/ CallMainPy(t)
        \/ GetClientStep(t) \/ AddContent(t) \/ Close(t)
\* None of these calls reads or writes the products or the orders, so the
\* store's content and its update semantics are fixed.
InitSetup ==
    /\ has_sign_in \in BOOLEAN
    /\ update_mode = "content"
    /\ instance = None
    /\ clients = <<>>
    /\ orders = <<>>
    /\ task = [t \in Tasks |-> IdleTask]
    /\ db_url \in Urls
    /\ products = <<Shirt(MaxStock), Mug>>
SpecSetup == InitSetup /\ [][NextSetup]_vars

\* Concurrent create_order calls, in a process whose handle has been
\* initialised over an HTTP endpoint (use and sign_in made, no connect).
HttpUrl == EnvStr(<<"h", "t", "t", "p", ":">>)
ReadyClient ==
    [NewClient(None) EXCEPT !.use = 1, !.sign_in = 1, !.sign_in_out = "ok",
                            !.sign_in_args = KeywordCredentials,
                            !.cached = TRUE]
InitOrders ==
    /\ has_sign_in = TRUE
    /\ update_mode \in {"content", "merge"}
    /\ db_url = HttpUrl
    /\ instance = 1
    /\ clients = <<ReadyClient>>
    /\ orders = <<>>
    /\ task = [t \in Tasks |-> IdleTask]
    /\ InitStore
NextOrders ==
    \E t \in Tasks :
        \/ \E name \in OrderNames, q \in Quantities : CallCreateOrder(t, name, q)
        \/ OrderStep(t)
Spec == InitOrders /\ [][NextOrders]_vars

\* create_order calls, one at a time.
NextOrdersSeq ==
    \E t \in Tasks :
        \/ /\ NoCallInProgress
           /\ \E name \in OrderNames, q \in Quantities : CallCreateOrder(t, name, q)
        \/ OrderStep(t)
SpecSeq == InitOrders /\ [][NextOrdersSeq]_vars

\* One run of the seed script.
InitMain ==
    /\ InitProcess
    /\ db_url \in Urls
    /\ products \in {<<>>, <<Mug>>}
NextMain ==
    \E t \in {1} : CallMain(t) \/ GetClientStep(t) \/ SeedCreate(t) \/ Close(t)
SpecMain == InitMain /\ [][NextMain]_vars

\* ------------------------------------------------------------------ claims
Done(t) == task[t].pc = "done"
Raised(t) == Done(t) /\ task[t].ret.kind = "raised"
GotOrder(t) == Done(t) /\ task[t].ret.kind = "order"
Succeeded == {t \in Tasks : GotOrder(t)}

\* All the tasks are create_order calls for the same product with the same
\* quantity q >= 1, every one of them made while the product's stock was s
\* (so none was called after another's update), every lookup found the
\* product, and no store call failed.
ConcurrentSameOrder(s, q) ==
    /\ q >= 1
    /\ \A t \in Tasks :
        /\ Done(t)
        /\ task[t].op = "create_order"
        /\ task[t].product_name = ShirtName
        /\ task[t].quantity = q
        /\ task[t].at_call_stock = s
        /\ ~Raised(t)
        /\ task[t].ret # ProductNotFound

\* C1: N concurrent create_order calls for one product with stock s, each
\* asking for q >= 1: at most floor(s / q) of them return an order and every
\* other call returns the out-of-stock result.
C1_AtMostFloorSucceed ==
    \A s \in 0..MaxStock, q \in 1..MaxQty :
        ConcurrentSameOrder(s, q) =>
            /\ Cardinality(Succeeded) <= s \div q
            /\ \A t \in Tasks : GotOrder(t) \/ task[t].ret = OutOfStock

\* C5: whenever a call has written an order record, the order's quantity is
\* not greater than the stock the product held in the store immediately
\* before that call's own stock update was applied.
C5_QuantityWithinStockAtCreation ==
    \A t \in Tasks :
        GotOrder(t) => task[t].ret.order.quantity <= task[t].seen

\* C6: the stored stock of every product is >= 0 in every reachable state,
\* for any interleaving of create_order calls with any integer quantities.
C6_StockNeverNegative ==
    \A i \in 1..Len(products) : products[i].stock >= 0

\* A call has updated the stock after another call's update made its own
\* read stale: the stock it overwrote was less than what it asked for.
C6_Witness ==
    /\ \E t \in Tasks :
        /\ "update" \in {task[t].trace[i] : i \in 1..Len(task[t].trace)}
        /\ task[t].seen < task[t].quantity
    /\ C6_StockNeverNegative

\* The positions of a store call in what a call has completed so far.
At(t, call) == {i \in 1..Len(task[t].trace) : task[t].trace[i] = call}

\* C7: a call that has written an order record has completed its own stock
\* update before; every order record was written by such a call.
C7_UpdateBeforeOrder ==
    /\ \A t \in Tasks :
        \A i \in At(t, "create") : \E j \in At(t, "update") : j < i
    /\ Len(orders) = Cardinality({t \in Tasks : At(t, "create") # {}})
    /\ \A t \in Tasks : GotOrder(t) => At(t, "create") # {}

\* Two calls have each written an order record.
C7_Witness ==
    /\ Len(orders) = NTasks
    /\ \A t \in Tasks : GotOrder(t) /\ At(t, "update") # {}

\* Clients that have been stored in SurrealDB._instance, which happens once
\* their sign-in has succeeded.
Cached == {i \in 1..Len(clients) : clients[i].cached}
GotHandle(t) == Done(t) /\ task[t].ret.kind = "handle"

\* C2: for any number of get_client callers, overlapping or not, at most one
\* client is ever constructed and authenticated, and every call returns that
\* same instance.
C2_SingleInstance ==
    /\ Cardinality(Cached) <= 1
    /\ \A t, u \in Tasks :
        GotHandle(t) /\ GotHandle(u) => task[t].ret.handle = task[u].ret.handle

\* C3: with the endpoint configured and every step succeeding, sequential
\* get_client calls return the identical instance and construct, connect
\* (for a ws endpoint only), use and sign in exactly once: once a call has
\* returned, the one client has received each call once and no later call
\* adds any.
C3_SequentialCallsInitialiseOnce ==
    (\A t \in Tasks : ~Raised(t)) =>
        /\ Len(clients) <= 1
        /\ \A i \in 1..Len(clients) :
            /\ clients[i].connect <= 1
            /\ clients[i].use <= 1
            /\ clients[i].sign_in <= 1
            /\ clients[i].signin <= 1
        /\ \A t \in Tasks :
            Done(t) =>
                /\ task[t].ret = HandleResult(1)
                /\ instance = 1
                /\ Len(clients) = 1
                /\ clients[1].connect =
                      (IF StartsWith(db_url.value, PrefixWs) THEN 1 ELSE 0)
                /\ clients[1].use = 1
                /\ clients[1].sign_in = (IF has_sign_in THEN 1 ELSE 0)
                /\ clients[1].signin =
                      (IF ~has_sign_in \/ clients[1].sign_in_out = "AttributeError"
                       THEN 1 ELSE 0)

\* Every task has made its call and got the handle the first one created.
C3_Witness ==
    /\ \A t \in Tasks : task[t].ret = HandleResult(1)
    /\ Len(clients) = 1
    /\ clients[1].connect = 1

\* C8: with SURREALDB_URL unset or empty, get_client (and setup_client)
\* raises the configuration error before any client is constructed, so
\* before any connect, use or sign-in call, and the cache stays unset.
C8_NoEndpointNoClient ==
    (~db_url.isSet \/ db_url.value = <<>>) =>
        /\ clients = <<>>
        /\ instance = None
        /\ \A t \in Tasks :
            /\ task[t].pc \in {"idle", "done"}
            /\ Done(t) => task[t].ret = Exception("ValueError")

\* The endpoint is the empty string; a get_client call and a setup_client
\* call have both raised.
C8_Witness ==
    /\ db_url = EnvStr(<<>>)
    /\ \E t, u \in Tasks :
        /\ Done(t) /\ task[t].op = "get_client"
        /\ Done(u) /\ task[u].op = "setup_client"

\* C9: the primary sign_in is tried first; on the missing-capability error
\* (AttributeError, raised by the call or by the client having no sign_in at
\* all) the legacy signin is called with the same credentials
\* and the handle is cached when it succeeds; on any other error of the
\* primary call no legacy call is made, the error reaches the caller and the
\* handle is not cached.
C9_SignInFallback ==
    \A i \in 1..Len(clients) :
        LET c == clients[i]
            owner == task[c.owner]
        IN  /\ c.sign_in <= 1
            /\ c.signin <= 1
            /\ c.sign_in > 0 => has_sign_in
            /\ c.signin > 0 =>
                /\ \/ c.sign_in = 1 /\ c.sign_in_out = "AttributeError"
                   \/ c.sign_in = 0 /\ ~has_sign_in /\ c.use = 1
                /\ c.signin_args =
                      (IF c.sign_in = 1 THEN c.sign_in_args ELSE KeywordCredentials)
            /\ c.sign_in_out = "AttributeError" =>
                \/ c.signin = 1
                \/ owner.pc = "signin" /\ owner.client = i
            /\ c.signin_out = "ok" =>
                /\ c.cached
                /\ owner.ret = HandleResult(i)
            /\ c.sign_in_out = "AuthError" =>
                /\ c.signin = 0
                /\ ~c.cached
                /\ owner.ret = Exception("AuthError")
            /\ c.signin_out = "AuthError" =>
                /\ ~c.cached
                /\ owner.ret = Exception("AuthError")

\* One client was authenticated by the legacy call after the primary one
\* raised AttributeError; another one's primary call failed otherwise.
C9_Witness ==
    \E i, j \in 1..Len(clients) :
        /\ clients[i].sign_in_out = "AttributeError"
        /\ clients[i].signin_out = "ok"
        /\ clients[i].cached
        /\ clients[j].sign_in_out = "AuthError"
        /\ Raised(clients[j].owner)

\* Task t's create_order call returns in this step, its lookup having found
\* the product and no store call having failed.
Returns(t) ==
    /\ task[t].pc # "done"
    /\ task'[t].pc = "done"
    /\ task'[t].op = "create_order"
    /\ task'[t].ret.kind # "raised"
    /\ task'[t].at_call_stock >= 0

\* C4: a create_order(X, q) run with no other call in progress, X having
\* stock s when it is called: if q <= s it returns an order with status
\* "pending" and quantity q, one order record has been added and the stored
\* stock of X is s - q; if q > s it returns the out-of-stock result, the
\* stored stock is still s and no order record has been added.
C4_SingleCreateOrder ==
    [][ \A t \in Tasks :
          Returns(t) =>
            LET q == task'[t].quantity
                s == task'[t].at_call_stock
                n == task'[t].at_call_orders
                X == task'[t].product.id
            IN  IF q <= s
                THEN /\ task'[t].ret.kind = "order"
                     /\ task'[t].ret.order.status = "pending"
                     /\ task'[t].ret.order.quantity = q
                     /\ task'[t].ret.order.product_id = X
                     /\ StockOf(products', X) = s - q
                     /\ Len(orders') = n + 1
                     /\ orders'[n + 1] = task'[t].ret.order
                ELSE /\ task'[t].ret = OutOfStock
                     /\ StockOf(products', X) = s
                     /\ Len(orders') = n
    ]_vars

\* One call has returned an order for the whole stock and a later call for
\* the same product has been refused for lack of stock.
C4_Witness ==
    \E t, u \in Tasks :
        /\ GotOrder(t)
        /\ task[t].quantity = task[t].at_call_stock
        /\ task[t].quantity > 0
        /\ Done(u)
        /\ task[u].ret = OutOfStock
        /\ task[u].at_call_stock >= 0
        /\ task[u].at_call_orders = 1

\* C10, as stated: in a run of database.main that has ended, on every path,
\* exactly one handle was created and it was closed exactly once.
C10_ExactlyOneHandleOnEveryPath ==
    Done(1) =>
        /\ Len(clients) = 1
        /\ clients[1].close = 1

\* C10, amended: in a run of database.main, no handle is closed twice and
\* only the cached handle receives store calls or is closed.  When the first
\* initialisation succeeds (whether or not populate_sample_data's create
\* call then fails), exactly one handle is created and it has been closed
\* once when the run ends.  When the endpoint is not configured no handle is
\* created.  When the first initialisation fails after the client was
\* constructed, that handle is never closed and the finally block's
\* get_client constructs a second one, which is closed once if its
\* initialisation succeeds.
C10_HandleLifecycle ==
    /\ Len(clients) <= 2
    /\ Cardinality(Cached) <= 1
    /\ \A i \in 1..Len(clients) :
        /\ clients[i].close <= 1
        /\ (clients[i].close > 0 \/ clients[i].store > 0) =>
                clients[i].cached /\ instance = i
    /\ Done(1) =>
        CASE Len(clients) = 0 ->
                /\ ~db_url.isSet \/ db_url.value = <<>>
                /\ task[1].ret = Exception("ValueError")
          [] Len(clients) >= 1 /\ clients[1].cached ->
                /\ Len(clients) = 1
                /\ clients[1].close = 1
          [] OTHER ->
                /\ clients[1].close = 0
                /\ Len(clients) = 2
                /\ clients[2].close = (IF clients[2].cached THEN 1 ELSE 0)

\* The run has ended after populate_sample_data's create call failed: the
\* one handle was used for that call and then closed.
C10_Witness ==
    /\ Done(1)
    /\ task[1].caught = "CreateError"
    /\ Len(clients) = 1
    /\ clients[1].store = 1
    /\ clients[1].close = 1

\* ---------------------------------------------------------------- lookups
ProductResult(p) ==
    [kind |-> "product", error |-> "", order |-> NoOrder, handle |-> None,
     product |-> p]
StatusResult(o) == [NoResult EXCEPT !.kind = "status", !.order = o]
OrderNotFound == ErrorResult("Order not found.")

CallGetProductInfo(t, name) ==
    /\ task[t].pc = "idle"
    /\ Becomes(t, GetClientEntry(t,
            [task[t] EXCEPT !.op = "get_product_info", !.product_name = name],
            instance, clients))
    /\ UNCHANGED <<db_url, has_sign_in, update_mode, instance, products, orders>>

\* tools.py 16-18, with the last row of the result for the first.
InfoOfLast(product) ==
    IF Len(product) > 0 /\ Len(product[1].result) > 0
    THEN ProductResult(product[1].result[Len(product[1].result)])
    ELSE ProductNotFound

\* tools.py 16-18: what get_product_info returns for the query's result.
InfoOf(product) ==
    IF Len(product) > 0 /\ Len(product[1].result) > 0
    THEN ProductResult(product[1].result[1])
    ELSE ProductNotFound

\* product = await db.query("SELECT * FROM products WHERE name = $name", ...)
InfoQuery(t) ==
    /\ task[t].pc = "info_query"
    /\ \E ok \in BOOLEAN :
        LET cs == Counted(clients, task[t].db, "store") IN
        IF ok
        THEN Becomes(t, [task |-> [task[t] EXCEPT
                                     !.pc = "done",
                                     !.ret = InfoOf(QueryByName(products,
                                                                task[t].product_name))],
                         clients |-> cs])
        ELSE Becomes(t, Propagate(t, task[t], "QueryError", instance, cs))
    /\ UNCHANGED <<db_url, has_sign_in, update_mode, instance, products, orders>>

CallCheckOrderStatus(t, order_id) ==
    /\ task[t].pc = "idle"
    /\ Becomes(t, GetClientEntry(t,
            [task[t] EXCEPT !.op = "check_order_status", !.order_id = order_id],
            instance, clients))
    /\ UNCHANGED <<db_url, has_sign_in, update_mode, instance, products, orders>>

\* f"products:{order_id}": the identifier built on the wrong table.
ProductRecordId(order_id) == RecordId("products", order_id)

\* f"orders:{order_id}"
OrderRecordId(order_id) == RecordId("orders", order_id)

\* db.select(id): the rows stored under the identifier, whatever their
\* table (none: the SDK's None).
SelectById(id) ==
    LET Test(r) == r.id = id IN
    SelectSeq(orders, Test) \o SelectSeq(products, Test)

\* tools.py 32-34: `if order: return order`, else the not-found result.
StatusOf(order) ==
    IF Len(order) > 0 THEN StatusResult(order[1]) ELSE OrderNotFound

\* order = await db.select(f"orders:{order_id}")
Select(t) ==
    /\ task[t].pc = "select"
    /\ \E ok \in BOOLEAN :
        LET cs == Counted(clients, task[t].db, "store") IN
        IF ok
        THEN Becomes(t, [task |-> [task[t] EXCEPT
                                     !.pc = "done",
                                     !.ret = StatusOf(SelectById(
                                                OrderRecordId(task[t].order_id)))],
                         clients |-> cs])
        ELSE Becomes(t, Propagate(t, task[t], "SelectError", instance, cs))
    /\ UNCHANGED <<db_url, has_sign_in, update_mode, instance, products, orders>>

\* Lookups running concurrently with create_order calls, in a store where
\* the seed script may have run twice (two products of the same name).
SecondShirt == Created("products", 3, ProductData(SeedStock))
LookupNames == {ShirtName, "nonexistent"}
OrderIds == 1..NTasks
InitLookup ==
    /\ has_sign_in = TRUE
    /\ update_mode \in {"content", "merge"}
    /\ db_url = HttpUrl
    /\ instance = 1
    /\ clients = <<ReadyClient>>
    /\ orders = <<>>
    /\ task = [t \in Tasks |-> IdleTask]
    /\ products \in {<<Shirt(MaxStock), Mug>>, <<Shirt(MaxStock), Mug, SecondShirt>>}
NextLookup ==
    \E t \in Tasks :
        \/ \E name \in LookupNames : CallGetProductInfo(t, name)
        \/ \E id \in OrderIds : CallCheckOrderStatus(t, id)
        \/ \E q \in 1..MaxQty : CallCreateOrder(t, ShirtName, q)
        \/ InfoQuery(t)
        \/ Select(t)
        \/ OrderStep(t)
SpecLookup == InitLookup /\ [][NextLookup]_vars

\* The rows a lookup by name matches, by position in the table.
Matches(name) ==
    {i \in 1..Len(products) :
        "name" \in DOMAIN products[i] /\ products[i].name = name}
FirstMatch(name) ==
    CHOOSE i \in Matches(name) : \A j \in Matches(name) : i <= j

\* Task t, running operation op, takes a step.
StepOf(t, op) == task'[t] # task[t] /\ task'[t].op = op

\* C11: get_product_info(name) returns the first product record whose name
\* equals the argument when there is one, and the not-found result as a
\* value (no exception) when there is none; no step of the call changes a
\* product or an order record.
C11_ProductInfo ==
    [][ \A t \in Tasks :
          StepOf(t, "get_product_info") =>
            /\ products' = products
            /\ orders' = orders
            /\ (task[t].pc = "info_query" /\ task'[t].ret.kind # "raised") =>
                /\ task'[t].pc = "done"
                /\ task'[t].ret =
                      IF Matches(task[t].product_name) = {}
                      THEN ProductNotFound
                      ELSE ProductResult(products[FirstMatch(task[t].product_name)])
    ]_vars

\* A lookup has returned the first of two products of the same name while
\* another lookup has returned the not-found result.
C11_Witness ==
    \E t, u \in Tasks :
        /\ Done(t) /\ task[t].op = "get_product_info"
        /\ task[t].ret.kind = "product"
        /\ task[t].ret.product.id = RecordId("products", 1)
        /\ Len(products) = 3
        /\ HasName(products[3], task[t].product_name)
        /\ Done(u) /\ task[u].op = "get_product_info"
        /\ task[u].ret = ProductNotFound

\* C12: check_order_status(order_id) returns the order record stored under
\* "orders:" + order_id when it exists and the not-found result as a value
\* when it does not; no step of the call changes a record.
C12_OrderStatus ==
    [][ \A t \in Tasks :
          StepOf(t, "check_order_status") =>
            /\ products' = products
            /\ orders' = orders
            /\ (task[t].pc = "select" /\ task'[t].ret.kind # "raised") =>
                /\ task'[t].pc = "done"
                /\ LET stored == {i \in 1..Len(orders) :
                                    /\ orders[i].id.tb = "orders"
                                    /\ orders[i].id.id = task[t].order_id}
                   IN  IF stored = {}
                       THEN task'[t].ret = OrderNotFound
                       ELSE \E i \in stored : task'[t].ret = StatusResult(orders[i])
    ]_vars

\* A status check has returned the order another task created.
C12_Witness ==
    \E t, u \in Tasks :
        /\ Done(t) /\ task[t].op = "check_order_status"
        /\ GotOrder(u)
        /\ task[t].ret = StatusResult(task[u].ret.order)

\* Concurrent create_order calls on a store whose stocks are known: the
\* shirt holds MaxStock, the mug its one piece.
InitialProducts == <<Shirt(MaxStock), Mug>>
InitConserve == InitOrders /\ products = InitialProducts
SpecConserve == InitConserve /\ [][NextOrders]_vars

RECURSIVE OrderedQuantity(_, _)
\* The sum of the quantities of the order records os that reference id.
OrderedQuantity(os, id) ==
    IF Len(os) = 0
    THEN 0
    ELSE (IF os[1].product_id = id THEN os[1].quantity ELSE 0)
         + OrderedQuantity(Tail(os), id)

\* No create_order call is between its stock read and its order write.
NoOrderInFlight == \A t \in Tasks : task[t].pc \notin {"update", "create"}

\* C13: conservation of stock.  For every product, in every state in which
\* no create_order call is between its stock read and its order write (and,
\* here, no store call has failed), stored stock + the quantities of all the
\* orders referencing the product = the product's initial stock.
C13_StockConserved ==
    (NoOrderInFlight /\ \A t \in Tasks : ~Raised(t)) =>
        \A i \in 1..Len(products) :
            products[i].stock + OrderedQuantity(orders, products[i].id)
                = InitialProducts[i].stock

\* C15: every order record written by create_order has a quantity >= 1 and
\* status "pending", whatever integer quantity the call was given.
C15_OrdersArePositive ==
    \A i \in 1..Len(orders) :
        /\ orders[i].quantity >= 1
        /\ orders[i].status = "pending"

\* C14: when create_order's stock update has succeeded and its order-create
\* call fails (or the process stops between the two), the failure reaches
\* the caller, the stock stays decremented by the quantity and no order
\* record exists for the call; the call does nothing more, so nothing
\* restores the stock.  Calls run one at a time.
C14_NoCompensation ==
    [][ \A t \in Tasks :
          /\ task[t].pc = "create" =>
                \* between the two calls
                /\ StockOf(products, task[t].product.id)
                      = task[t].at_call_stock - task[t].quantity
                /\ Len(orders) = task[t].at_call_orders
                \* the create call fails
                /\ (task'[t].pc = "done" /\ task'[t].ret.kind # "order") =>
                      /\ task'[t].ret = Exception("CreateError")
                      /\ products' = products
                      /\ orders' = orders
          /\ task[t].pc = "done" => task'[t] = task[t]
    ]_vars

\* A call asking for one piece or more has failed in its create call: the
\* stock is the decremented one and there is no order record.
C14_Witness ==
    \E t \in Tasks :
        /\ task[t].ret = Exception("CreateError")
        /\ task[t].quantity >= 1
        /\ StockOf(products, task[t].product.id)
              = task[t].at_call_stock - task[t].quantity
        /\ orders = <<>>

\* C17: a successful create_order changes only the stock field of the one
\* product record it looked up: when the call returns its order, that record
\* is the one the call read with the new stock in it, every other product
\* record is as it was, and the product is still found under the same name
\* (so that a second call for the name can succeed).  Calls run one at a time.
C17_OnlyStockChanges ==
    [][ \A t \in Tasks :
          /\ (task[t].pc = "update" /\ task'[t].pc = "create") =>
                /\ Len(products') = Len(products)
                /\ \A i \in 1..Len(products) :
                      products[i].id # task[t].product.id => products'[i] = products[i]
          /\ (task[t].pc = "create" /\ task'[t].ret.kind = "order") =>
                /\ \A i \in 1..Len(products') :
                      products'[i].id = task[t].product.id =>
                          products'[i] = [task[t].product EXCEPT
                                              !.stock = task[t].new_stock]
                /\ StockByName(products', task[t].product_name) = task[t].new_stock
    ]_vars

\* ------------------------------------------------------------ shutdown
\* get_client calls and shutdown steps, one call at a time.
NextShutdown ==
    \E t \in Tasks :
        \/ NoCallInProgress /\ (CallGetClient(t) \/ CallShutdown(t))
        \/ GetClientStep(t)
        \/ Close(t)
SpecShutdown == InitClients /\ [][NextShutdown]_vars

CacheClosed == instance # None /\ clients[instance].close > 0
Called(t) == task[t].pc = "idle" /\ task'[t].pc # "idle"
Closes(t) == task[t].pc = "close" /\ task'[t].pc = "done"

\* C16 as stated: the shutdown step does not clear the cache, and a shutdown
\* step or a get_client call made after the cached handle was closed
\* constructs a new client (to be authenticated) rather than returning the
\* closed one.
C16_RecreatesAfterClose ==
    [][ \A t \in Tasks :
          /\ Closes(t) => instance' = instance
          /\ (Called(t) /\ CacheClosed) =>
                /\ Len(clients') = Len(clients) + 1
                /\ task'[t].client = Len(clients')
                /\ task'[t].pc \in {"connect", "use"}
    ]_vars

\* C16 as amended: the shutdown step closes the cached handle and does not
\* clear the cache, and a shutdown step or a get_client call made after that
\* gets the same, closed, handle from the getter: no client is constructed
\* and none is authenticated.
C16_ReturnsClosedHandle ==
    [][ \A t \in Tasks :
          /\ Closes(t) =>
                /\ instance' = instance
                /\ instance = task[t].db
                /\ clients'[instance].close = clients[instance].close + 1
          /\ (Called(t) /\ CacheClosed) =>
                /\ clients' = clients
                /\ instance' = instance
                /\ task'[t].op = "get_client" =>
                      /\ task'[t].pc = "done"
                      /\ task'[t].ret = HandleResult(instance)
                /\ task'[t].op = "main" =>
                      /\ task'[t].pc = "close"
                      /\ task'[t].db = instance
    ]_vars

\* Two shutdown steps, one after the other, have closed the one client ever
\* constructed: the second got the closed handle from the getter.
C16_Witness ==
    /\ Len(clients) = 1
    /\ instance = 1
    /\ clients[1].close = 2
    /\ clients[1].sign_in + clients[1].signin <= 2
    /\ \A t \in Tasks : task[t].op = "main" /\ Done(t)

\* ------------------------------------------------- initialisation order
\* The endpoint URL starts with "ws", spelt out on the characters.
UrlIsWs ==
    /\ db_url.isSet
    /\ Len(db_url.value) >= 2
    /\ db_url.value[1] = "w"
    /\ db_url.value[2] = "s"

FailedAt(t, e) == Raised(t) /\ task[t].ret.error = e

\* C18: on every client constructed by get_client or setup_client, each
\* initialisation step is made at most once and in order: connect is made
\* only for a URL starting with "ws", and once selection has been made
\* connect has been made exactly when the URL starts with "ws"; sign-in is
\* made only after selection, the fallback only after the first sign-in
\* call raised AttributeError or on a client that has no sign_in; a client
\* is in the cache only if one of its sign-in calls succeeded;
\* and a call that failed at a step made no later step on its client and
\* left it out of the cache.
C18_InitialisationOrder ==
    /\ instance # None => clients[instance].cached
    /\ \A i \in 1..Len(clients) :
        LET c == clients[i] IN
        /\ c.connect <= 1 /\ c.use <= 1 /\ c.sign_in <= 1 /\ c.signin <= 1
        /\ c.connect = 1 => UrlIsWs
        /\ c.use = 1 => (c.connect = 1 <=> UrlIsWs)
        /\ c.sign_in = 1 => c.use = 1
        /\ c.sign_in = 1 => has_sign_in
        /\ c.signin = 1 =>
                /\ c.use = 1
                /\ \/ c.sign_in = 1 /\ c.sign_in_out = "AttributeError"
                   \/ c.sign_in = 0 /\ ~has_sign_in
        /\ c.cached => c.sign_in_out = "ok" \/ c.signin_out = "ok"
        /\ c.cached => task[c.owner].op = "get_client"
        /\ FailedAt(c.owner, "ConnectionError") =>
                c.use = 0 /\ c.sign_in = 0 /\ c.signin = 0
        /\ FailedAt(c.owner, "UseError") => c.sign_in = 0 /\ c.signin = 0
        /\ FailedAt(c.owner, "AuthError") => c.use = 1 /\ (c.sign_in = 1 \/ c.signin = 1)
        /\ Raised(c.owner) => ~c.cached /\ instance # i

\* Over a "ws" URL, one get_client call went through connect, selection and
\* sign-in and cached its client, while another call, begun before the first
\* one finished, failed at selection after its connect and cached nothing.
C18_Witness ==
    /\ UrlIsWs
    /\ \E i, j \in 1..Len(clients) :
        /\ i # j
        /\ instance = i
        /\ clients[i].connect = 1 /\ clients[i].use = 1 /\ clients[i].cached
        /\ clients[j].connect = 1 /\ clients[j].use = 1 /\ clients[j].sign_in = 0
        /\ FailedAt(clients[j].owner, "UseError")
        /\ ~clients[j].cached

====
